---- MODULE Spec2Model ----
(***************************************************************************)
(* Model of src/preprocessor.py: preprocess_handler flattens one captured  *)
(* inference record into a seven-entry mapping keyed by zero-padded        *)
(* positional indices.                                                     *)
(*                                                                         *)
(* Python values are tagged records [kind, val]:                           *)
(*   none   None                                                           *)
(*   bool   val \in BOOLEAN                                                *)
(*   int    val \in Int                                                    *)
(*   float  val = [sp, neg, m, e]: sp is "fin", "inf" or "nan"; a finite   *)
(*          value is (-1)^neg * m * 10^e with m not divisible by 10        *)
(*          (m = 0 has e = 0): the shortest decimal that reads back as     *)
(*          the double, which is what repr() prints.  Numerals carry at    *)
(*          most nine significant digits (m and int values are machine     *)
(*          integers of the checker).                                      *)
(*   str    val = sequence of characters.  A printable ASCII character,    *)
(*          tab, line feed, form feed and carriage return are the          *)
(*          one-character string; any other character (and the grave      *)
(*          accent, which a string here cannot hold) is the string "u"     *)
(*          followed by its code point in lower-case hexadecimal, at       *)
(*          least four digits ("u000b", "u00a0", "u1f600"): see CharOf     *)
(*   bytes  val = sequence of bytes; an ASCII byte is the character with   *)
(*          its code, the byte 0xFF (never valid UTF-8) is "xff"           *)
(*   dict   val = function from str keys (character sequences) to values   *)
(*   list   val = sequence of values                                       *)
(*   obj    attribute-bearing object; val = function from attribute names  *)
(*          to values, an attribute of kind "raises" being a property      *)
(*          whose getter raises an exception other than AttributeError     *)
(* A result of kind "exc" stands for a raised exception.                   *)
(***************************************************************************)
EXTENDS Integers, Sequences, FiniteSets, TLC

VARIABLES
  record,          \* inference_record, the argument of the call in progress
  pc,              \* the stage the call is at
  flat_record,     \* the seven-field record being filled
  capture,         \* locals of the call; Unbound until assigned
  endpoint_input,
  csv_raw,
  fields,
  endpoint_output,
  pred_raw,
  pred_json,
  logged,          \* the stages that reported through logger.error
  result,          \* the returned mapping, None until the call returns
  escaped,         \* an exception left preprocess_handler
  calls,           \* number of calls made so far
  seen             \* the mapping returned for each record of a finished call

vars == <<record, pc, flat_record, capture, endpoint_input, csv_raw, fields,
          endpoint_output, pred_raw, pred_json, logged, result, escaped,
          calls, seen>>

V(k, v) == [kind |-> k, val |-> v]

None == V("none", 0)

Exc == V("exc", 0)

Unbound == V("unbound", 0)

Raises == V("raises", 0)

PStr(s) == V("str", s)

PInt(n) == V("int", n)

PBool(b) == V("bool", b)

PBytes(b) == V("bytes", b)

PDict(f) == V("dict", f)

PList(s) == V("list", s)

PObj(f) == V("obj", f)

EmptyMap == <<>>

IsExc(v) == v.kind = "exc"

\* ---- names used by the handler ------------------------------------------
S_captureData == <<"c","a","p","t","u","r","e","D","a","t","a">>

S_capturedata == <<"c","a","p","t","u","r","e","d","a","t","a">>

S_endpointInput == <<"e","n","d","p","o","i","n","t","I","n","p","u","t">>

S_endpoint_input == <<"e","n","d","p","o","i","n","t","_","i","n","p","u","t">>

S_endpointOutput == <<"e","n","d","p","o","i","n","t","O","u","t","p","u","t">>

S_endpoint_output == <<"e","n","d","p","o","i","n","t","_","o","u","t","p","u","t">>

S_data == <<"d","a","t","a">>

S_predictions == <<"p","r","e","d","i","c","t","i","o","n","s">>

S_score == <<"s","c","o","r","e">>

\* ---- characters -----------------------------------------------------------
Hex == <<"0","1","2","3","4","5","6","7","8","9","a","b","c","d","e","f">>

RECURSIVE HexStr(_, _)
\* n in lower-case hexadecimal, at least width digits long, as one string
HexStr(n, width) ==
  IF n = 0 /\ width <= 0 THEN ""
  ELSE HexStr(n \div 16, width - 1) \o Hex[(n % 16) + 1]

\* the characters with codes 32 to 126 (a string cannot hold the grave
\* accent, code 96)
AsciiPrintable ==
  <<
     " ", "!", "\"", "#", "$", "%", "&", "'", "(", ")", "*", "+", ",", "-",
     ".", "/", "0", "1", "2", "3", "4", "5", "6", "7", "8", "9", ":", ";",
     "<", "=", ">", "?", "@", "A", "B", "C", "D", "E", "F", "G", "H", "I",
     "J", "K", "L", "M", "N", "O", "P", "Q", "R", "S", "T", "U", "V", "W",
     "X", "Y", "Z", "[", "\\", "]", "^", "_", "u0060", "a", "b", "c", "d", "e",
     "f", "g", "h", "i", "j", "k", "l", "m", "n", "o", "p", "q", "r", "s",
     "t", "u", "v", "w", "x", "y", "z", "{", "|", "}", "~"
  >>

\* chr(n)
CharOf(n) ==
  IF n >= 32 /\ n <= 126 THEN AsciiPrintable[n - 31]
  ELSE IF n = 9 THEN "\t"
  ELSE IF n = 10 THEN "\n"
  ELSE IF n = 12 THEN "\f"
  ELSE IF n = 13 THEN "\r"
  ELSE "u" \o HexStr(n, 4)

\* the code points c with chr(c).isspace()
SpaceCodes ==
  (9..13) \cup (28..32) \cup {133, 160, 5760} \cup (8192..8202)
  \cup {8232, 8233, 8239, 8287, 12288}

\* the characters str.strip() removes
SpaceChars == {CharOf(n) : n \in SpaceCodes}

\* the characters float() and int() skip around a numeral: a non-ASCII
\* space is turned into a blank first, an ASCII one counts when C's
\* isspace() holds of it, which leaves out the separators 28 to 31
NumSpaceChars == {CharOf(n) : n \in SpaceCodes \ (28..31)}

\* the characters below 32, which a JSON string may not hold unescaped
ControlChars == {CharOf(n) : n \in 0..31}

\* the code point of the digit zero of every block of Unicode decimal
\* digits (category Nd) other than ASCII; the nine that follow it are the
\* digits one to nine
NdZeros ==
  {
    1632, 1776, 1984, 2406, 2534, 2662, 2790, 2918, 3046, 3174, 3302, 3430,
    3558, 3664, 3792, 3872, 4160, 4240, 6112, 6160, 6470, 6608, 6784, 6800,
    6992, 7088, 7232, 7248, 42528, 43216, 43264, 43472, 43504, 43600, 44016,
    65296, 66720, 68912, 69734, 69872, 69942, 70096, 70384, 70736, 70864,
    71248, 71360, 71472, 71904, 72016, 72784, 73040, 73120, 92768, 92864,
    93008, 120782, 120792, 120802, 120812, 120822, 123200, 123632, 125264,
    130032
  }

NdChars == {CharOf(z + d) : z \in NdZeros, d \in 0..9}

\* ---- floats ---------------------------------------------------------------
Fin(neg, m, e) == [sp |-> "fin", neg |-> neg, m |-> m, e |-> e]

FInf(neg) == [sp |-> "inf", neg |-> neg, m |-> 0, e |-> 0]

FNan == [sp |-> "nan", neg |-> FALSE, m |-> 0, e |-> 0]

RECURSIVE Normalize(_, _, _)
\* the canonical form of (-1)^neg * m * 10^e
Normalize(neg, m, e) ==
  IF m = 0 THEN Fin(neg, 0, 0)
  ELSE IF m % 10 = 0 THEN Normalize(neg, m \div 10, e + 1)
  ELSE Fin(neg, m, e)

PFloat(neg, m, e) == V("float", Normalize(neg, m, e))

RECURSIVE Pow10(_)
Pow10(n) == IF n <= 0 THEN 1 ELSE 10 * Pow10(n - 1)

\* ---- truth value of a Python value ----------------------------------------
Truthy(v) ==
  CASE v.kind = "none"  -> FALSE
    [] v.kind = "bool"  -> v.val
    [] v.kind = "int"   -> v.val # 0
    [] v.kind = "float" -> ~(v.val.sp = "fin" /\ v.val.m = 0)
    [] v.kind \in {"str", "bytes", "list"} -> Len(v.val) > 0
    [] v.kind = "dict"  -> DOMAIN v.val # {}
    [] OTHER            -> TRUE

\* `a or b`: b is evaluated only when a is falsy; an exception raised while
\* evaluating a propagates.
OrElse(a, b) == IF IsExc(a) THEN a ELSE IF Truthy(a) THEN a ELSE b

\* ---- get_prop ---------------------------------------------------------------
get_prop(obj, name) ==
  IF obj.kind = "none" THEN None
  ELSE IF obj.kind = "dict"
       THEN (IF name \in DOMAIN obj.val THEN obj.val[name] ELSE None)
  ELSE IF obj.kind = "obj" /\ name \in DOMAIN obj.val
       \* hasattr() swallows AttributeError only: any other exception of
       \* the getter leaves get_prop
       THEN (IF obj.val[name].kind = "raises" THEN Exc ELSE obj.val[name])
  \* no such attribute: obj[name] raises and None is returned
  ELSE None

\* ---- text helpers ----------------------------------------------------------
Digits == <<"0","1","2","3","4","5","6","7","8","9">>

IsDigit(c) == \E d \in 1..10 : Digits[d] = c

DigitVal(c) == (CHOOSE d \in 1..10 : Digits[d] = c) - 1

IsSpace(c) == c \in SpaceChars

\* a decimal digit for float() and int() of a str: ASCII or Unicode
IsDecimal(c) == IsDigit(c) \/ (Len(c) > 1 /\ c \in NdChars)

DecimalVal(c) ==
  IF IsDigit(c) THEN DigitVal(c)
  ELSE CHOOSE d \in 0..9 : \E z \in NdZeros : CharOf(z + d) = c

RECURSIVE LStrip(_, _)
LStrip(s, spaces) ==
  IF s # <<>> /\ Head(s) \in spaces THEN LStrip(Tail(s), spaces) ELSE s

RECURSIVE RStrip(_, _)
RStrip(s, spaces) ==
  IF s # <<>> /\ s[Len(s)] \in spaces THEN RStrip(SubSeq(s, 1, Len(s) - 1), spaces) ELSE s

\* str.strip()
Strip(s) == RStrip(LStrip(s, SpaceChars), SpaceChars)

\* the numeral float() and int() are left with
NumStrip(s) == RStrip(LStrip(s, NumSpaceChars), NumSpaceChars)

RECURSIVE SplitAcc(_, _, _)
SplitAcc(s, cur, sep) ==
  IF s = <<>> THEN <<cur>>
  ELSE IF Head(s) = sep THEN <<cur>> \o SplitAcc(Tail(s), <<>>, sep)
  ELSE SplitAcc(Tail(s), Append(cur, Head(s)), sep)

\* str.split(sep) for a one-character separator: always at least one piece
Split(s, sep) == SplitAcc(s, <<>>, sep)

RECURSIVE NatStr(_)
NatStr(n) == IF n < 10 THEN <<Digits[n + 1]>> ELSE Append(NatStr(n \div 10), Digits[(n % 10) + 1])

\* str(n) of an int
StrInt(n) == IF n < 0 THEN <<"-">> \o NatStr(-n) ELSE NatStr(n)

RECURSIVE Zeros(_)
Zeros(n) == IF n <= 0 THEN <<>> ELSE <<"0">> \o Zeros(n - 1)

\* str.zfill(width): the sign, if any, stays in front of the padding
ZFill(s, width) ==
  IF Len(s) >= width THEN s
  ELSE IF s # <<>> /\ Head(s) \in {"+", "-"}
       THEN <<Head(s)>> \o Zeros(width - Len(s)) \o Tail(s)
  ELSE Zeros(width - Len(s)) \o s

\* the digits ds of a finite non-zero float whose decimal point lies decpt
\* places after the first digit's left edge: fixed notation while
\* -4 < decpt <= 16, scientific notation otherwise (float_repr_style short)
StrDigits(ds, decpt) ==
  IF decpt > 16 \/ decpt < -3
  THEN <<ds[1]>> \o (IF Len(ds) > 1 THEN <<".">> \o SubSeq(ds, 2, Len(ds)) ELSE <<>>)
       \o <<"e", IF decpt < 1 THEN "-" ELSE "+">>
       \o ZFill(NatStr(IF decpt < 1 THEN 1 - decpt ELSE decpt - 1), 2)
  ELSE IF decpt <= 0 THEN <<"0", ".">> \o Zeros(-decpt) \o ds
  ELSE IF decpt >= Len(ds) THEN ds \o Zeros(decpt - Len(ds)) \o <<".", "0">>
  ELSE SubSeq(ds, 1, decpt) \o <<".">> \o SubSeq(ds, decpt + 1, Len(ds))

\* str(x) of a float (its repr)
StrFloat(f) ==
  IF f.sp = "nan" THEN <<"n","a","n">>
  ELSE (IF f.neg THEN <<"-">> ELSE <<>>)
       \o (IF f.sp = "inf" THEN <<"i","n","f">>
           ELSE IF f.m = 0 THEN <<"0",".","0">>
           ELSE StrDigits(NatStr(f.m), Len(NatStr(f.m)) + f.e))

\* ---- int(text) and float(text) ---------------------------------------------
RECURSIVE SpanDigits(_, _, _)
\* index just after the longest digitpart  digit (["_"] digit)*  of s that
\* starts at i (i itself when there is none); prev tells whether s[i-1]
\* was a digit of the same digitpart
SpanDigits(s, i, prev) ==
  IF i <= Len(s) /\ IsDecimal(s[i]) THEN SpanDigits(s, i + 1, TRUE)
  ELSE IF prev /\ i + 1 <= Len(s) /\ s[i] = "_" /\ IsDecimal(s[i + 1])
       THEN SpanDigits(s, i + 2, TRUE)
  ELSE i

RECURSIVE DigitsVal(_, _, _, _)
\* the number written by the digits of s[i..j-1], underscores skipped
DigitsVal(s, i, j, acc) ==
  IF i >= j THEN acc
  ELSE IF s[i] = "_" THEN DigitsVal(s, i + 1, j, acc)
  ELSE DigitsVal(s, i + 1, j, 10 * acc + DecimalVal(s[i]))

RECURSIVE DigitCount(_, _, _)
DigitCount(s, i, j) ==
  IF i >= j THEN 0
  ELSE (IF s[i] = "_" THEN 0 ELSE 1) + DigitCount(s, i + 1, j)

HasSign(s) == s # <<>> /\ s[1] \in {"+", "-"}

\* the digits d that follow the optional sign of an int literal
IntDigits(neg, d) ==
  IF d # <<>> /\ SpanDigits(d, 1, FALSE) = Len(d) + 1
  THEN PInt((IF neg THEN -1 ELSE 1) * DigitsVal(d, 1, Len(d) + 1, 0))
  ELSE Exc

IntStripped(s) == IF HasSign(s) THEN IntDigits(s[1] = "-", Tail(s)) ELSE IntDigits(FALSE, s)

\* int(text): optional white space, optional sign, one digitpart
ParseInt(text) == IntStripped(NumStrip(text))

LowerC(c) ==
  CASE c = "I" -> "i" [] c = "N" -> "n" [] c = "F" -> "f" [] c = "T" -> "t"
    [] c = "Y" -> "y" [] c = "A" -> "a" [] OTHER -> c

Lower(s) == [i \in 1..Len(s) |-> LowerC(s[i])]

\* -- natural numbers beyond the machine word: base-10000 limbs, the least
\* -- significant first, no zero limb at the top
RECURSIVE BigMulSmall(_, _, _)
\* a * x + carry, for x and carry below 10000
BigMulSmall(a, x, carry) ==
  IF a = <<>> THEN (IF carry = 0 THEN <<>> ELSE <<carry>>)
  ELSE <<(Head(a) * x + carry) % 10000>>
       \o BigMulSmall(Tail(a), x, (Head(a) * x + carry) \div 10000)

Limb(a) == IF a = <<>> THEN 0 ELSE Head(a)

Rest(a) == IF a = <<>> THEN <<>> ELSE Tail(a)

RECURSIVE BigAdd(_, _, _)
\* a + b + carry
BigAdd(a, b, carry) ==
  IF a = <<>> /\ b = <<>> THEN (IF carry = 0 THEN <<>> ELSE <<carry>>)
  ELSE <<(Limb(a) + Limb(b) + carry) % 10000>>
       \o BigAdd(Rest(a), Rest(b), (Limb(a) + Limb(b) + carry) \div 10000)

RECURSIVE BigMulInt(_, _)
\* a * k for a non-zero a and an integer k >= 0
BigMulInt(a, k) ==
  IF k = 0 THEN <<>>
  ELSE BigAdd(BigMulSmall(a, k % 10000, 0), <<0>> \o BigMulInt(a, k \div 10000), 0)

\* a * 10^j
BigTimesPow10(a, j) == [i \in 1..(j \div 4) |-> 0] \o BigMulSmall(a, Pow10(j % 4), 0)

RECURSIVE BigLessFrom(_, _, _)
BigLessFrom(a, b, i) ==
  IF i = 0 THEN FALSE
  ELSE IF a[i] # b[i] THEN a[i] < b[i]
  ELSE BigLessFrom(a, b, i - 1)

\* a < b
BigLess(a, b) == IF Len(a) # Len(b) THEN Len(a) < Len(b) ELSE BigLessFrom(a, b, Len(a))

RECURSIVE LargestBelow(_, _, _, _)
\* the largest k in lo..hi with k * x < y, lo being one such
LargestBelow(lo, hi, x, y) ==
  IF lo >= hi THEN lo
  ELSE IF BigLess(BigMulInt(x, lo + (hi - lo + 1) \div 2), y)
       THEN LargestBelow(lo + (hi - lo + 1) \div 2, hi, x, y)
       ELSE LargestBelow(lo, lo + (hi - lo + 1) \div 2 - 1, x, y)

\* -- the doubles next to zero are the multiples k * 2^-1074.  With
\* -- P = 5^324 and Q = 2^751, a decimal m * 10^(-324-j) lies below the
\* -- midpoint (2k+1) * 2^-1075 exactly when m * Q < (2k+1) * P * 10^j
Pow5 ==
  <<
     625, 5664, 5705, 4128, 8113, 1847, 8757, 4006, 8698, 5571, 9639, 4694,
     1816, 8268, 8277, 8844, 1715, 7943, 7055, 1129, 6827, 8826, 2002, 4683,
     8874, 4585, 7448, 5122, 4637, 1914, 9086, 5901, 4039, 9620, 6935, 2914,
     7809, 1249, 4792, 7395, 8662, 2215, 7107, 4572, 4636, 5867, 6889, 5619,
     6728, 3661, 588, 4724, 3954, 8262, 7216, 6047, 292
  >>

Pow2 ==
  <<
     1248, 434, 1234, 6051, 1358, 8915, 6387, 4586, 3771, 4436, 9218, 2729,
     5382, 2215, 6903, 3769, 8711, 19, 3152, 2525, 8421, 5193, 9866, 7411,
     6537, 885, 9836, 4559, 5091, 8008, 5024, 5721, 9771, 325, 661, 9492,
     6312, 5929, 1834, 5120, 5222, 6914, 8089, 1901, 8947, 7117, 6603, 4657,
     4239, 1329, 6350, 323, 1148, 657, 3043, 4477, 118
  >>

\* the k whose double k * 2^-1074 is nearest to m * 10^(-324-j): the
\* largest with (2k-1) * P * 10^j < m * Q (no decimal this short is a
\* midpoint)
SubnormalNearest(m, j) ==
  LargestBelow(0, m, BigTimesPow10(BigMulSmall(Pow5, 2, 0), j),
               BigAdd(BigMulInt(Pow2, m), BigTimesPow10(Pow5, j), 0))

\* k * 2^-1074 in units of 10^-324, rounded down: the largest F with
\* F * Q <= 2k * P
SubnormalFloor(k, m) ==
  LargestBelow(0, m + 3, Pow2, BigAdd(BigMulInt(Pow5, 2 * k), <<1>>, 0))

\* D * 10^(t-324) reads back as the double between the midpoints below
\* and above
ReadsBack(D, t, below, above) ==
  /\ D >= 1
  /\ BigLess(below, BigTimesPow10(BigMulInt(Pow2, D), t))
  /\ BigLess(BigTimesPow10(BigMulInt(Pow2, D), t), above)

RECURSIVE ShortestDigits(_, _, _, _, _, _)
\* repr of the double k * 2^-1074: the decimal of fewest digits that reads
\* back as it, tried on the grids 10^(t-324) from the coarsest down, and on
\* the finest grid the one nearest to it
ShortestDigits(neg, F, t, k, below, above) ==
  IF t = 0
  THEN PFloat(neg, IF BigLess(BigMulInt(Pow5, 4 * k), BigMulInt(Pow2, 2 * F + 1))
                   THEN F ELSE F + 1, -324)
  ELSE IF ReadsBack(F \div Pow10(t), t, below, above)
       THEN PFloat(neg, F \div Pow10(t), t - 324)
  ELSE IF ReadsBack(F \div Pow10(t) + 1, t, below, above)
       THEN PFloat(neg, F \div Pow10(t) + 1, t - 324)
  ELSE ShortestDigits(neg, F, t - 1, k, below, above)

SubnormalOf(neg, m, k) ==
  IF k = 0 THEN V("float", Fin(neg, 0, 0))
  ELSE ShortestDigits(neg, SubnormalFloor(k, m), 9, k,
                      BigMulInt(Pow5, 2 * k - 1), BigMulInt(Pow5, 2 * k + 1))

\* the double nearest to m * 10^(-324-j), j >= 0
Subnormal(neg, m, j) == SubnormalOf(neg, m, SubnormalNearest(m, j))

\* a decimal of d digits m and magnitude 10^309 rounds to inf from
\* (2^1024 - 2^970) = 1.797693134862315807...e308 on
Overflows(m, d) ==
  IF d <= 9 THEN m * Pow10(9 - d) > 179769313 ELSE m > 1797693134

\* the double nearest to the decimal f (ties to even).  A decimal of at
\* most nine digits is the shortest that reads back as its double unless
\* it overflows or has digits below 10^-323, where doubles are 4.94e-324
\* apart
RoundedAt(f, magnitude) ==
  IF magnitude > 309 THEN V("float", FInf(f.val.neg))
  ELSE IF magnitude = 309
       THEN (IF Overflows(f.val.m, magnitude - f.val.e) THEN V("float", FInf(f.val.neg))
             ELSE f)
  ELSE IF f.val.e >= -323 THEN f
  ELSE IF magnitude <= -324 THEN V("float", Fin(f.val.neg, 0, 0))
  ELSE Subnormal(f.val.neg, f.val.m, -324 - f.val.e)

Rounded(f) ==
  IF f.val.m = 0 THEN f ELSE RoundedAt(f, Len(NatStr(f.val.m)) + f.val.e)

\* the float written by d: integer digits d[1..ie-1], fraction digits
\* d[fb..fe-1], decimal exponent expo
MakeFloat(neg, d, ie, fb, fe, expo) ==
  Rounded(PFloat(neg, DigitsVal(d, 1, ie, 0) * Pow10(DigitCount(d, fb, fe))
                      + DigitsVal(d, fb, fe, 0),
                 expo - DigitCount(d, fb, fe)))

\* the exponent digits d[xb..xe-1] that follow e or E and an optional sign
FloatExponent(neg, d, ie, fb, fe, xb, xe) ==
  IF xe > xb /\ xe = Len(d) + 1
  THEN MakeFloat(neg, d, ie, fb, fe,
                 (IF d[xb - 1] = "-" THEN -1 ELSE 1) * DigitsVal(d, xb, xe, 0))
  ELSE Exc

\* after the mantissa, which needs a digit before or after the point
FloatMantissa(neg, d, ie, fb, fe) ==
  IF ~(ie > 1 \/ fe > fb) THEN Exc
  ELSE IF fe = Len(d) + 1 THEN MakeFloat(neg, d, ie, fb, fe, 0)
  ELSE IF d[fe] \in {"e", "E"}
       THEN FloatExponent(neg, d, ie, fb, fe,
              IF fe + 1 <= Len(d) /\ d[fe + 1] \in {"+", "-"} THEN fe + 2 ELSE fe + 1,
              SpanDigits(d, IF fe + 1 <= Len(d) /\ d[fe + 1] \in {"+", "-"}
                            THEN fe + 2 ELSE fe + 1, FALSE))
  ELSE Exc

\* after the integer digits d[1..ie-1]
FloatInteger(neg, d, ie) ==
  IF ie <= Len(d) /\ d[ie] = "."
  THEN FloatMantissa(neg, d, ie, ie + 1, SpanDigits(d, ie + 1, FALSE))
  ELSE FloatMantissa(neg, d, ie, ie, ie)

\* the text d that follows the optional sign: inf, infinity, nan in any
\* case, or  digitpart [. [digitpart]] [exponent] | . digitpart [exponent]
FloatUnsigned(neg, d) ==
  IF Lower(d) \in {<<"i","n","f">>, <<"i","n","f","i","n","i","t","y">>}
  THEN V("float", FInf(neg))
  ELSE IF Lower(d) = <<"n","a","n">> THEN V("float", FNan)
  ELSE FloatInteger(neg, d, SpanDigits(d, 1, FALSE))

FloatStripped(s) ==
  IF HasSign(s) THEN FloatUnsigned(s[1] = "-", Tail(s)) ELSE FloatUnsigned(FALSE, s)

\* float(text)
ParseFloat(text) == FloatStripped(NumStrip(text))

\* ---- bytes -------------------------------------------------------------------
InvalidByte == "xff"

\* bytes.decode("utf-8") succeeds exactly when no byte is invalid
Decodable(b) == \A i \in 1..Len(b) : b[i] # InvalidByte

\* the ASCII bytes repr() writes as \xNN
UnprintableCodes == (0..8) \cup {11, 12} \cup (14..31) \cup {127}

UnprintableBytes == {CharOf(n) : n \in UnprintableCodes}

ByteCode(c) == CHOOSE n \in UnprintableCodes : CharOf(n) = c

RECURSIVE ReprBytesBody(_, _)
ReprBytesBody(b, quote) ==
  IF b = <<>> THEN <<>>
  ELSE (CASE Head(b) = InvalidByte -> <<"\\", "x", "f", "f">>
          [] Head(b) = quote \/ Head(b) = "\\" -> <<"\\", Head(b)>>
          [] Head(b) = "\t" -> <<"\\", "t">>
          [] Head(b) = "\n" -> <<"\\", "n">>
          [] Head(b) = "\r" -> <<"\\", "r">>
          [] Head(b) \in UnprintableBytes ->
               <<"\\", "x", Hex[(ByteCode(Head(b)) \div 16) + 1],
                 Hex[(ByteCode(Head(b)) % 16) + 1]>>
          [] OTHER -> <<Head(b)>>)
       \o ReprBytesBody(Tail(b), quote)

Quoted(b, quote) == <<"b", quote>> \o ReprBytesBody(b, quote) \o <<quote>>

\* str(b) of a bytes value: b'...', in double quotes when the bytes hold a
\* single quote and no double quote
ReprBytes(b) ==
  Quoted(b, IF (\E i \in 1..Len(b) : b[i] = "'") /\ ~(\E i \in 1..Len(b) : b[i] = "\"")
            THEN "\"" ELSE "'")

\* ---- conversions ------------------------------------------------------------
\* float(v); a str holds no invalid byte
PyFloat(v) ==
  CASE v.kind = "float" -> v
    [] v.kind = "int"   -> PFloat(v.val < 0, IF v.val < 0 THEN -v.val ELSE v.val, 0)
    [] v.kind = "bool"  -> PFloat(FALSE, IF v.val THEN 1 ELSE 0, 0)
    [] v.kind \in {"str", "bytes"} -> IF Decodable(v.val) THEN ParseFloat(v.val) ELSE Exc
    [] OTHER            -> Exc

\* int(v)
PyInt(v) ==
  CASE v.kind = "int"   -> v
    [] v.kind = "bool"  -> PInt(IF v.val THEN 1 ELSE 0)
    [] v.kind = "float" ->
         IF v.val.sp # "fin" THEN Exc
         ELSE PInt((IF v.val.neg THEN -1 ELSE 1)
                   * (IF v.val.e >= 0 THEN v.val.m * Pow10(v.val.e)
                      ELSE v.val.m \div Pow10(-v.val.e)))
    [] v.kind \in {"str", "bytes"} -> IF Decodable(v.val) THEN ParseInt(v.val) ELSE Exc
    [] OTHER            -> Exc

\* str(v), for the kinds the handler stringifies; an object without __str__
\* renders as "<... object at 0x...>", of which only the leading "<" matters
PyStr(v) ==
  CASE v.kind = "str"   -> v
    [] v.kind = "int"   -> PStr(StrInt(v.val))
    [] v.kind = "float" -> PStr(StrFloat(v.val))
    [] v.kind = "bool"  -> PStr(IF v.val THEN <<"T","r","u","e">> ELSE <<"F","a","l","s","e">>)
    [] v.kind = "none"  -> PStr(<<"N","o","n","e">>)
    [] v.kind = "bytes" -> PStr(ReprBytes(v.val))
    [] v.kind = "obj"   -> PStr(<<"<","o","b","j","e","c","t",">">>)

\* float(v), int(v) or str(v)
Convert(type, v) ==
  CASE type = "float" -> PyFloat(v)
    [] type = "int"   -> PyInt(v)
    [] type = "str"   -> PyStr(v)

\* ---- extract_data -----------------------------------------------------------
\* lines 45-50, val being  get_prop(container, "data") or container
DecodeBytes(val) ==
  IF IsExc(val) THEN Exc
  ELSE IF val.kind = "bytes"
       THEN (IF Decodable(val.val) THEN PStr(val.val) ELSE PyStr(val))
  ELSE val

extract_data(container) ==
  IF container.kind = "none" THEN None
  ELSE DecodeBytes(OrElse(get_prop(container, S_data), container))

\* ---- json.loads ---------------------------------------------------------------
Fail == [ok |-> FALSE, val |-> None, pos |-> 0]

Ok(v, p) == [ok |-> TRUE, val |-> v, pos |-> p]

IsJsonSpace(c) == c \in {" ", "\t", "\n", "\r"}

RECURSIVE SkipWs(_, _)
SkipWs(s, i) == IF i <= Len(s) /\ IsJsonSpace(s[i]) THEN SkipWs(s, i + 1) ELSE i

At(s, i, c) == i <= Len(s) /\ s[i] = c

StartsWith(s, i, w) == i + Len(w) - 1 <= Len(s) /\ SubSeq(s, i, i + Len(w) - 1) = w

RECURSIVE SpanPlainDigits(_, _)
SpanPlainDigits(s, i) ==
  IF i <= Len(s) /\ IsDigit(s[i]) THEN SpanPlainDigits(s, i + 1) ELSE i

\* j when the digits s[i..j-1] are at least one, else back
AtLeastOne(i, j, back) == IF j > i THEN j ELSE back

\* the match s[i..xe-1] of NUMBER_RE whose integer part ends before ie: an
\* int when neither fraction nor exponent matched, else float() of the match
JsonNumberValue(s, i, ie, xe) ==
  IF xe = ie THEN Ok(ParseInt(SubSeq(s, i, ie - 1)), ie)
  ELSE Ok(ParseFloat(SubSeq(s, i, xe - 1)), xe)

\* ([eE][-+]?\d+)? at fe
JsonExponent(s, i, ie, fe) ==
  JsonNumberValue(s, i, ie,
    IF fe <= Len(s) /\ s[fe] \in {"e", "E"}
    THEN (IF fe + 1 <= Len(s) /\ s[fe + 1] \in {"+", "-"}
          THEN AtLeastOne(fe + 2, SpanPlainDigits(s, fe + 2), fe)
          ELSE AtLeastOne(fe + 1, SpanPlainDigits(s, fe + 1), fe))
    ELSE fe)

\* (\.\d+)? at ie
JsonFraction(s, i, b, ie) ==
  IF ie = b THEN Fail
  ELSE JsonExponent(s, i, ie,
         IF At(s, ie, ".") THEN AtLeastOne(ie + 1, SpanPlainDigits(s, ie + 1), ie) ELSE ie)

\* (0|[1-9]\d*) at b
JsonInteger(s, i, b) ==
  JsonFraction(s, i, b, IF At(s, b, "0") THEN b + 1 ELSE SpanPlainDigits(s, b))

\* NUMBER_RE  (-?(?:0|[1-9]\d*))(\.\d+)?([eE][-+]?\d+)?  matched at i
ParseJsonNumber(s, i) == JsonInteger(s, i, IF At(s, i, "-") THEN i + 1 ELSE i)

\* the character a one-letter escape stands for
JsonEscape(c) ==
  CASE c = "n" -> "\n" [] c = "r" -> "\r" [] c = "t" -> "\t" [] c = "f" -> "\f"
    [] c = "b" -> CharOf(8)
    [] OTHER -> c

HexUpper == <<"0","1","2","3","4","5","6","7","8","9","A","B","C","D","E","F">>

IsHex(c) == \E h \in 1..16 : Hex[h] = c \/ HexUpper[h] = c

HexVal(c) == (CHOOSE h \in 1..16 : Hex[h] = c \/ HexUpper[h] = c) - 1

\* s[i..i+3] are four hexadecimal digits
IsHex4(s, i) == i + 3 <= Len(s) /\ \A k \in i..(i + 3) : IsHex(s[k])

Hex4(s, i) ==
  ((HexVal(s[i]) * 16 + HexVal(s[i + 1])) * 16 + HexVal(s[i + 2])) * 16 + HexVal(s[i + 3])

IsHighSurrogate(n) == n >= 55296 /\ n <= 56319

IsLowSurrogate(n) == n >= 56320 /\ n <= 57343

RECURSIVE ParseJsonString(_, _, _)
RECURSIVE JsonUnicode(_, _, _, _)
RECURSIVE JsonSurrogate(_, _, _, _, _)

\* the string whose opening quote precedes i; a raw control character is
\* rejected, a backslash starts an escape
ParseJsonString(s, i, acc) ==
  IF i > Len(s) THEN Fail
  ELSE IF s[i] = "\"" THEN Ok(PStr(acc), i + 1)
  ELSE IF s[i] \in ControlChars THEN Fail
  ELSE IF s[i] = "\\"
       THEN (IF i + 1 <= Len(s) /\ s[i + 1] \in {"\"", "\\", "/", "b", "f", "n", "r", "t"}
             THEN ParseJsonString(s, i + 2, Append(acc, JsonEscape(s[i + 1])))
             ELSE IF i + 1 <= Len(s) /\ s[i + 1] = "u" /\ IsHex4(s, i + 2)
                  THEN JsonUnicode(s, i + 6, acc, Hex4(s, i + 2))
             ELSE Fail)
  ELSE ParseJsonString(s, i + 1, Append(acc, s[i]))

\* after \uXXXX of value c, i being the index that follows: a high
\* surrogate looks at a \u escape that follows it
JsonUnicode(s, i, acc, c) ==
  IF IsHighSurrogate(c) /\ i + 6 <= Len(s) /\ s[i] = "\\" /\ s[i + 1] = "u"
  THEN (IF IsHex4(s, i + 2) THEN JsonSurrogate(s, i, acc, c, Hex4(s, i + 2)) ELSE Fail)
  ELSE ParseJsonString(s, i, Append(acc, CharOf(c)))

\* a low surrogate c2 joins the high surrogate c into one character,
\* anything else leaves c alone and is read again as an escape of its own
JsonSurrogate(s, i, acc, c, c2) ==
  IF IsLowSurrogate(c2)
  THEN ParseJsonString(s, i + 6,
         Append(acc, CharOf(65536 + (c - 55296) * 1024 + (c2 - 56320))))
  ELSE ParseJsonString(s, i, Append(acc, CharOf(c)))

RECURSIVE ParseJsonValue(_, _)
RECURSIVE ParseJsonMembers(_, _, _)
RECURSIVE ParseJsonItems(_, _, _)
RECURSIVE JsonMemberValue(_, _, _)
RECURSIVE JsonMemberEnd(_, _, _, _)
RECURSIVE JsonItemEnd(_, _, _)

\* JSONObject at the opening quote of a key: "key" : value pairs separated
\* by commas, a repeated key keeping its last value
ParseJsonMembers(s, i, acc) ==
  IF At(s, i, "\"") THEN JsonMemberValue(s, ParseJsonString(s, i + 1, <<>>), acc)
  ELSE Fail

\* after the key k: the colon and the value
JsonMemberValue(s, k, acc) ==
  IF k.ok /\ At(s, SkipWs(s, k.pos), ":")
  THEN JsonMemberEnd(s, k.val.val,
                     ParseJsonValue(s, SkipWs(s, SkipWs(s, k.pos) + 1)), acc)
  ELSE Fail

\* after the value v of key: a comma and the next pair, or the closing brace
JsonMemberEnd(s, key, v, acc) ==
  IF ~v.ok THEN Fail
  ELSE IF At(s, SkipWs(s, v.pos), "}")
       THEN Ok(PDict((key :> v.val) @@ acc), SkipWs(s, v.pos) + 1)
  ELSE IF At(s, SkipWs(s, v.pos), ",")
       THEN ParseJsonMembers(s, SkipWs(s, SkipWs(s, v.pos) + 1), (key :> v.val) @@ acc)
  ELSE Fail

\* JSONArray: values separated by commas up to the closing bracket
ParseJsonItems(s, i, acc) == JsonItemEnd(s, ParseJsonValue(s, i), acc)

JsonItemEnd(s, v, acc) ==
  IF ~v.ok THEN Fail
  ELSE IF At(s, SkipWs(s, v.pos), "]") THEN Ok(PList(Append(acc, v.val)), SkipWs(s, v.pos) + 1)
  ELSE IF At(s, SkipWs(s, v.pos), ",")
       THEN ParseJsonItems(s, SkipWs(s, SkipWs(s, v.pos) + 1), Append(acc, v.val))
  ELSE Fail

\* scan_once at i.  The scanner tries a number before NaN, Infinity and
\* -Infinity; no text matches both, so the number comes last here
ParseJsonValue(s, i) ==
  IF i > Len(s) THEN Fail
  ELSE IF s[i] = "\"" THEN ParseJsonString(s, i + 1, <<>>)
  ELSE IF s[i] = "{"
       THEN (IF At(s, SkipWs(s, i + 1), "}") THEN Ok(PDict(EmptyMap), SkipWs(s, i + 1) + 1)
             ELSE ParseJsonMembers(s, SkipWs(s, i + 1), EmptyMap))
  ELSE IF s[i] = "["
       THEN (IF At(s, SkipWs(s, i + 1), "]") THEN Ok(PList(<<>>), SkipWs(s, i + 1) + 1)
             ELSE ParseJsonItems(s, SkipWs(s, i + 1), <<>>))
  ELSE IF StartsWith(s, i, <<"n","u","l","l">>) THEN Ok(None, i + 4)
  ELSE IF StartsWith(s, i, <<"t","r","u","e">>) THEN Ok(PBool(TRUE), i + 4)
  ELSE IF StartsWith(s, i, <<"f","a","l","s","e">>) THEN Ok(PBool(FALSE), i + 5)
  ELSE IF StartsWith(s, i, <<"N","a","N">>) THEN Ok(V("float", FNan), i + 3)
  ELSE IF StartsWith(s, i, <<"I","n","f","i","n","i","t","y">>)
       THEN Ok(V("float", FInf(FALSE)), i + 8)
  ELSE IF StartsWith(s, i, <<"-","I","n","f","i","n","i","t","y">>)
       THEN Ok(V("float", FInf(TRUE)), i + 9)
  ELSE ParseJsonNumber(s, i)

\* the value v parsed from text, which only white space may follow
JsonWhole(text, v) ==
  IF v.ok /\ SkipWs(text, v.pos) = Len(text) + 1 THEN v.val ELSE Exc

\* json.loads(text); Exc stands for JSONDecodeError
json_loads(text) == JsonWhole(text, ParseJsonValue(text, SkipWs(text, 1)))

\* ---- preprocess_handler ------------------------------------------------------
\* flat_record as created at the start of every call
DefaultRecord ==
  [price |-> PFloat(FALSE, 0, 0), sqft |-> PFloat(FALSE, 0, 0), bedrooms |-> PInt(0),
   bathrooms |-> PFloat(FALSE, 0, 0), location |-> PStr(<<>>), year_built |-> PInt(0),
   condition |-> PStr(<<>>)]

MinFields == 6

KeyWidth == 20

RECURSIVE KeepNonEmpty(_)
KeepNonEmpty(ps) ==
  IF ps = <<>> THEN <<>>
  ELSE IF Strip(Head(ps)) # <<>> THEN <<Strip(Head(ps))>> \o KeepNonEmpty(Tail(ps))
  ELSE KeepNonEmpty(Tail(ps))

\* CsvFields were the empty pieces kept
CsvFieldsKeepEmpty(text) == [k \in 1..Len(Split(text, ",")) |-> Strip(Split(text, ",")[k])]

\* [f.strip() for f in csv_raw.split(",") if f.strip() != ""]
CsvFields(text) == KeepNonEmpty(Split(text, ","))

\* the fields the request sets, in the order of the dict literal, and the
\* conversion applied to the piece at the same position
CsvNames == <<"sqft", "bedrooms", "bathrooms", "location", "year_built", "condition">>

CsvTypes == <<"float", "int", "float", "str", "int", "str">>

\* UpdateRecord were the fields assigned one by one up to the failing one
UpdateRecordPartial(fr, converted) ==
  [ok |-> \A k \in 1..Len(CsvNames) : ~IsExc(converted[k]),
   fr |-> [n \in DOMAIN fr |->
             IF \E k \in 1..Len(CsvNames) :
                  CsvNames[k] = n /\ \A j \in 1..k : ~IsExc(converted[j])
             THEN converted[CHOOSE k \in 1..Len(CsvNames) : CsvNames[k] = n]
             ELSE fr[n]]]

\* flat_record.update(converted), unless a conversion raised
UpdateRecord(fr, converted) ==
  IF \E k \in 1..Len(CsvNames) : IsExc(converted[k]) THEN [ok |-> FALSE, fr |-> fr]
  ELSE [ok |-> TRUE,
        fr |-> [n \in DOMAIN fr |->
                  IF \E k \in 1..Len(CsvNames) : CsvNames[k] = n
                  THEN converted[CHOOSE k \in 1..Len(CsvNames) : CsvNames[k] = n]
                  ELSE fr[n]]]

\* lines 67-74: the dict literal is evaluated in full before update is
\* called, so one failing conversion leaves fr untouched
CsvUpdate(fr, fs) ==
  UpdateRecord(fr, [k \in 1..Len(CsvNames) |-> Convert(CsvTypes[k], PStr(fs[k]))])

\* capture = get_prop(record, "captureData") or get_prop(record, "capturedata") or record
LocateCapture(rec) ==
  OrElse(get_prop(rec, S_captureData), OrElse(get_prop(rec, S_capturedata), rec))

\* get_prop(capture, a) or get_prop(capture, b)
EitherProp(cap, a, b) == OrElse(get_prop(cap, a), get_prop(cap, b))

OrNone(v) == IF IsExc(v) THEN None ELSE v

\* lines 89-101: text is decoded, a mapping or sequence is taken as it is,
\* anything else but None is stringified and decoded; a failed decoding
\* leaves None
DecodePrediction(raw) ==
  CASE raw.kind \in {"dict", "list"} -> raw
    [] raw.kind = "none" -> None
    [] OTHER -> OrNone(json_loads(IF raw.kind = "str" THEN raw.val ELSE PyStr(raw).val))

\* dict.get(key, default)
DictGet(d, key, default) == IF key \in DOMAIN d.val THEN d.val[key] ELSE default

\* predictions[0].get("score") and the price it gives
ScoreOf(first) ==
  IF first.kind # "dict" THEN Exc
  ELSE IF DictGet(first, S_score, None).kind = "none" THEN Unbound
  ELSE PyFloat(DictGet(first, S_score, None))

\* FirstOf were the last prediction taken
FirstOfLast(predictions) ==
  IF predictions.kind = "list" /\ Len(predictions.val) > 0
  THEN ScoreOf(predictions.val[Len(predictions.val)])
  ELSE Unbound

FirstOf(predictions) ==
  IF predictions.kind = "list" /\ Len(predictions.val) > 0
  THEN ScoreOf(predictions.val[1])
  ELSE Unbound

\* lines 105-110: the price the decoded prediction gives; Unbound when
\* price is left alone, Exc when a lookup or float(score) raises
PredictionPrice(js) ==
  IF js.kind = "dict" THEN FirstOf(DictGet(js, S_predictions, PList(<<PDict(EmptyMap)>>)))
  ELSE Unbound

\* the final re-cast, in the order of lines 117-123
CastNames == <<"sqft", "bathrooms", "bedrooms", "year_built", "price", "location", "condition">>

CastTypes == <<"float", "float", "int", "int", "float", "str", "str">>

RECURSIVE CastFrom(_, _)
RECURSIVE CastAssign(_, _, _)

\* assignments k.. of the re-cast: the first failing conversion abandons
\* the rest and keeps what was assigned
CastFrom(fr, k) ==
  IF k > Len(CastNames) THEN [fr |-> fr, raised |-> FALSE]
  ELSE CastAssign(fr, k, Convert(CastTypes[k], fr[CastNames[k]]))

CastAssign(fr, k, c) ==
  IF IsExc(c) THEN [fr |-> fr, raised |-> TRUE]
  ELSE CastFrom([fr EXCEPT ![CastNames[k]] = c], k + 1)

\* ValueNames with bedrooms and bathrooms exchanged
ValueNamesSwapped ==
  <<"price", "sqft", "bathrooms", "bedrooms", "location", "year_built", "condition">>

\* values (lines 130-132): price, sqft, bedrooms, bathrooms and year_built
\* go through str(), location and condition are taken as they are
ValueNames == <<"price", "sqft", "bedrooms", "bathrooms", "location", "year_built", "condition">>

Stringified == {"price", "sqft", "bedrooms", "bathrooms", "year_built"}

ValuesOf(fr) ==
  [k \in 1..Len(ValueNames) |->
     IF ValueNames[k] \in Stringified THEN PyStr(fr[ValueNames[k]]) ELSE fr[ValueNames[k]]]

\* KeyOf without the padding
KeyOfUnpadded(i) == StrInt(i)

\* str(i).zfill(20)
KeyOf(i) == ZFill(StrInt(i), KeyWidth)

\* {str(i).zfill(20): v for i, v in enumerate(values)}
\* (a key produced twice keeps its last value)
OutputMapping(values) ==
  PDict([k \in {KeyOf(i - 1) : i \in 1..Len(values)} |->
           values[CHOOSE i \in 1..Len(values) :
                    KeyOf(i - 1) = k /\ \A j \in (i + 1)..Len(values) : KeyOf(j - 1) # k]])

\* Propagates were the second try block to re-raise
PropagatesReraised(clause) == clause = "output"

\* whether an exception that reached the except clause of a try block
\* ("input", "output" or "cast") goes on to the caller: every clause logs
\* and falls through
Propagates(clause) == FALSE

\* ---- the call, step by step ---------------------------------------------------
\* Enter were flat_record kept from one call to the next
EnterStale(r) ==
  /\ record' = r
  /\ flat_record' = flat_record
  /\ capture' = Unbound
  /\ endpoint_input' = Unbound
  /\ csv_raw' = Unbound
  /\ fields' = <<>>
  /\ endpoint_output' = Unbound
  /\ pred_raw' = Unbound
  /\ pred_json' = Unbound
  /\ logged' = {}
  /\ result' = None
  /\ escaped' = FALSE
  /\ pc' = "capture"

\* lines 9-21: a call starts with a fresh flat_record and no local bound
Enter(r) ==
  /\ record' = r
  /\ flat_record' = DefaultRecord
  /\ capture' = Unbound
  /\ endpoint_input' = Unbound
  /\ csv_raw' = Unbound
  /\ fields' = <<>>
  /\ endpoint_output' = Unbound
  /\ pred_raw' = Unbound
  /\ pred_json' = Unbound
  /\ logged' = {}
  /\ result' = None
  /\ escaped' = FALSE
  /\ pc' = "capture"

\* an exception reached the except clause of a try block: it is logged and
\* the code after the block goes on
Caught(clause, next) ==
  /\ logged' = logged \cup {clause}
  /\ IF Propagates(clause) THEN escaped' = TRUE /\ pc' = "done"
     ELSE escaped' = escaped /\ pc' = next

Goes(next) == pc' = next /\ UNCHANGED <<logged, escaped>>

CaptureFound(c) ==
  IF IsExc(c) THEN Caught("input", "output") /\ UNCHANGED capture
  ELSE capture' = c /\ Goes("input")

\* line 54
LocateStep ==
  /\ pc = "capture"
  /\ CaptureFound(LocateCapture(record))
  /\ UNCHANGED <<record, flat_record, endpoint_input, csv_raw, fields, endpoint_output,
                 pred_raw, pred_json, result, calls, seen>>

InputExtracted(raw) ==
  IF IsExc(raw) THEN Caught("input", "output") /\ UNCHANGED csv_raw
  ELSE csv_raw' = raw /\ Goes("csv")

InputFound(ei) ==
  IF IsExc(ei) THEN Caught("input", "output") /\ UNCHANGED <<endpoint_input, csv_raw>>
  ELSE endpoint_input' = ei /\ InputExtracted(extract_data(ei))

\* lines 58-59
InputStep ==
  /\ pc = "input"
  /\ InputFound(EitherProp(capture, S_endpointInput, S_endpoint_input))
  /\ UNCHANGED <<record, flat_record, capture, fields, endpoint_output, pred_raw,
                 pred_json, result, calls, seen>>

CsvUpdated(u) ==
  /\ flat_record' = u.fr
  /\ logged' = IF u.ok THEN logged ELSE logged \cup {"csv"}

CsvParsed(fs) ==
  /\ fields' = fs
  /\ IF Len(fs) >= MinFields THEN CsvUpdated(CsvUpdate(flat_record, fs))
     ELSE UNCHANGED <<flat_record, logged>>

\* lines 62-78
CsvStep ==
  /\ pc = "csv"
  /\ IF csv_raw.kind = "str" THEN CsvParsed(CsvFields(csv_raw.val))
     ELSE UNCHANGED <<fields, flat_record, logged>>
  /\ pc' = "output"
  /\ UNCHANGED <<record, capture, endpoint_input, csv_raw, endpoint_output, pred_raw,
                 pred_json, result, escaped, calls, seen>>

OutputExtracted(raw) ==
  IF IsExc(raw) THEN Caught("output", "cast") /\ UNCHANGED pred_raw
  ELSE pred_raw' = raw /\ Goes("decode")

OutputFound(eo) ==
  IF IsExc(eo) THEN Caught("output", "cast") /\ UNCHANGED <<endpoint_output, pred_raw>>
  ELSE endpoint_output' = eo /\ OutputExtracted(extract_data(eo))

\* lines 85-86; reading capture raises when the first block failed before
\* binding it
OutputStep ==
  /\ pc = "output"
  /\ IF capture.kind = "unbound"
     THEN Caught("output", "cast") /\ UNCHANGED <<endpoint_output, pred_raw>>
     ELSE OutputFound(EitherProp(capture, S_endpointOutput, S_endpoint_output))
  /\ UNCHANGED <<record, flat_record, capture, endpoint_input, csv_raw, fields,
                 pred_json, result, calls, seen>>

\* lines 89-103
DecodeStep ==
  /\ pc = "decode"
  /\ pred_json' = DecodePrediction(pred_raw)
  /\ pc' = "score"
  /\ UNCHANGED <<record, flat_record, capture, endpoint_input, csv_raw, fields,
                 endpoint_output, pred_raw, logged, result, escaped, calls, seen>>

PriceFound(price) ==
  IF IsExc(price) THEN Caught("output", "cast") /\ UNCHANGED flat_record
  ELSE /\ flat_record' = IF price.kind = "unbound" THEN flat_record
                         ELSE [flat_record EXCEPT !.price = price]
       /\ Goes("cast")

\* lines 105-110
ScoreStep ==
  /\ pc = "score"
  /\ PriceFound(PredictionPrice(pred_json))
  /\ UNCHANGED <<record, capture, endpoint_input, csv_raw, fields, endpoint_output,
                 pred_raw, pred_json, result, calls, seen>>

CastDone(o) ==
  /\ flat_record' = o.fr
  /\ IF o.raised THEN Caught("cast", "serialize") ELSE Goes("serialize")

\* lines 116-125
FinalCast ==
  /\ pc = "cast"
  /\ CastDone(CastFrom(flat_record, 1))
  /\ UNCHANGED <<record, capture, endpoint_input, csv_raw, fields, endpoint_output,
                 pred_raw, pred_json, result, calls, seen>>

\* lines 127-133
Serialize ==
  /\ pc = "serialize"
  /\ result' = OutputMapping(ValuesOf(flat_record))
  /\ seen' = IF record \in DOMAIN seen THEN seen ELSE (record :> result') @@ seen
  /\ pc' = "done"
  /\ UNCHANGED <<record, flat_record, capture, endpoint_input, csv_raw, fields,
                 endpoint_output, pred_raw, pred_json, logged, escaped, calls>>

\* a later call, on a record r
Invoke(r) ==
  /\ pc = "done"
  /\ Enter(r)
  /\ calls' = calls + 1
  /\ UNCHANGED seen

\* ---- input records ------------------------------------------------------------
MaxPieces == 7

MaxCalls == 3

Q(s) == <<"\"">> \o s \o <<"\"">>

\* {"score":<v>}
ScoreText(v) == <<"{">> \o Q(S_score) \o <<":">> \o v \o <<"}">>

\* {"predictions":<v>}
PredictionsText(v) == <<"{">> \o Q(S_predictions) \o <<":">> \o v \o <<"}">>

\* {"predictions":[{"score":<v>}]}
ScoredText(v) == PredictionsText(<<"[">> \o ScoreText(v) \o <<"]">>)

\* {"predictions":[{"score": 452000.5}]}
J_good == ScoredText(<<" ","4","5","2","0","0","0",".","5">>)

T_not_json == <<"n","o","t"," ","j","s","o","n">>

ResponseTexts ==
  { J_good,
    T_not_json,
    <<>>,
    <<"4","2">>,
    ScoredText(<<"\"","1","e","3","\"">>),
    ScoredText(<<"\"","a","b","c","\"">>),
    ScoredText(<<"n","u","l","l">>),
    ScoredText(<<"t","r","u","e">>),
    ScoredText(<<"N","a","N">>),
    ScoredText(<<"[","1","]">>),
    ScoredText(<<"1",",","\"","s","c","o","r","e","\"",":","2">>),
    ScoredText(<<"1","2","3","4","5","6","7","8","e","1","0">>),
    ScoredText(<<"0",".","0","0","0","0","1">>),
    ScoredText(<<"0","1">>),
    ScoredText(<<"9","e","3","0","8">>),
    ScoredText(<<"4","e","-","3","2","4">>),
    \* {"predictions":[{"score":1,"note":"a\u0020b\b"}]}
    PredictionsText(<<"[","{">> \o Q(S_score) \o <<":","1",",">> \o Q(<<"n","o","t","e">>)
                    \o <<":">> \o Q(<<"a","\\","u","0","0","2","0","b","\\","b">>) \o <<"}","]">>),
    \* {"\u0070redictions":[{"score":"\u00a0\u0663"}]}
    <<"{">> \o Q(<<"\\","u","0","0","7","0">> \o Tail(S_predictions)) \o <<":","[">>
      \o ScoreText(Q(<<"\\","u","0","0","a","0","\\","u","0","6","6","3">>)) \o <<"]","}">>,
    ScoredText(Q(<<"\\","u","0","0","1","c","1">>)),
    ScoredText(Q(<<"\\","u","d","8","3","d","\\","u","d","e","0","0">>)),
    ScoredText(Q(<<"u000b","1">>)),
    PredictionsText(<<"[","]">>),
    PredictionsText(<<"[","5","]">>),
    PredictionsText(ScoreText(<<"2">>)),
    PredictionsText(<<"[">> \o ScoreText(<<" ","7">>) \o <<","," ">> \o ScoreText(<<" ","9">>) \o <<"]">>),
    ScoreText(<<" ","3">>),
    <<"[">> \o ScoreText(<<"1">>) \o <<"]">>,
    SubSeq(J_good, 1, Len(J_good) - 1),
    J_good \o <<" ", "x">>,
    <<" ","{","\"","p","r","e","d","i","c","t","i","o","n","s","\""," ",":"," ","["," ",
      "{","\"","s","c","o","r","e","\""," ",":"," ","-","2",".","5","0","e","1"," ","}",
      " ","]"," ","}"," ">> }

\* {"predictions": [{"score": v}]}, already structured
ScoredDict(v) == PDict(S_predictions :> PList(<<PDict(S_score :> v)>>))

\* response payloads: text, bytes, already structured, other scalars, absent
ResponsePayloads ==
  {PStr(t) : t \in ResponseTexts}
  \cup { None, PInt(42), PInt(0), PBool(TRUE), PFloat(FALSE, 15, -1),
         PBytes(J_good), PBytes(J_good \o <<InvalidByte>>), PBytes(<<>>),
         ScoredDict(PFloat(FALSE, 4520005, -1)), ScoredDict(PInt(-3)),
         ScoredDict(PStr(<<"2",".","5">>)), ScoredDict(PStr(<<"x">>)), ScoredDict(None),
         ScoredDict(PList(<<>>)), ScoredDict(PBytes(<<"7">>)),
         PDict(EmptyMap), PDict(S_predictions :> PList(<<>>)),
         PDict(S_predictions :> PList(<<PInt(1)>>)),
         PDict(S_predictions :> PList(<<PDict(S_score :> PInt(1)), PInt(2)>>)),
         PList(<<PDict(S_score :> PInt(1))>>), PList(<<>>) }

FewResponses == {PStr(J_good), None}

\* the request of the running example: 1200, 3, 2.5, Downtown, 1998, Good
BasePieces ==
  << <<"1","2","0","0">>, <<"3">>, <<"2",".","5">>, <<"D","o","w","n","t","o","w","n">>,
     <<"1","9","9","8">>, <<"G","o","o","d">> >>

BasePiece(i) == IF i <= Len(BasePieces) THEN BasePieces[i] ELSE <<"e","x","t","r","a">>

\* pieces put in place of one piece of the example
Tokens ==
  { <<>>, <<" "," ">>, <<"a","b","c">>, <<"-","7">>, <<" ","4","2"," ">>, <<"1","e","3">>,
    <<"1","_","0">>, <<"n","a","n">>, <<"0",".","0","0","0","0","1">>, <<"-","0">>,
    <<"3",".","0">>, <<"+","5">>,
    \* beyond the largest double, below the smallest, between the two smallest
    <<"2","e","3","0","8">>, <<"1","e","-","3","2","4">>, <<"1",".","2","e","-","3","2","3">>,
    \* a vertical tab before a numeral, a lone file separator, an Arabic-Indic three
    <<"u000b","3">>, <<"u001c">>, <<"u0663">> }

RECURSIVE Join(_, _)
Join(ps, sep) ==
  IF ps = <<>> THEN <<>>
  ELSE IF Len(ps) = 1 THEN ps[1]
  ELSE ps[1] \o sep \o Join(Tail(ps), sep)

\* the example cut or extended to n pieces, piece i (if any) replaced by tok
Pieces(n, i, tok) == [k \in 1..n |-> IF k = i THEN tok ELSE BasePiece(k)]

RequestTexts ==
  { Join(Pieces(n, 0, <<>>), sep) : n \in 0..MaxPieces, sep \in {<<",">>, <<","," ">>} }
  \cup { Join(Pieces(n, i, tok), <<","," ">>) :
           n \in (MinFields - 1)..MaxPieces, i \in 1..MinFields, tok \in Tokens }

\* request payloads: text, bytes, structured, absent
RequestPayloads ==
  {PStr(t) : t \in RequestTexts}
  \cup { None, PInt(5), PDict(EmptyMap), PList(<<PStr(<<"1">>)>>),
         PBytes(Join(BasePieces, <<",">>)),
         PBytes(Join(BasePieces, <<",">>) \o <<InvalidByte>>) }

FewRequests ==
  { PStr(Join(BasePieces, <<","," ">>)),
    PStr(Join(Pieces(MinFields, 1, <<"a","b","c">>), <<","," ">>)) }

Wrap(v) == PDict(S_data :> v)

\* a record with payloads q and p wrapped under data inside captureData
Captured(q, p) ==
  PDict(S_captureData :> PDict((S_endpointInput :> Wrap(q)) @@ (S_endpointOutput :> Wrap(p))))

\* a record with raw payloads at the top level and no capture field
TopLevel(q, p) == PDict((S_endpointInput :> q) @@ (S_endpointOutput :> p))

\* the other shapes a record takes around q and p
OtherShapes(q, p) ==
  { \* an empty capture beside top-level payloads
    PDict((S_captureData :> PDict(EmptyMap)) @@ (S_endpointInput :> q) @@ (S_endpointOutput :> p)),
    \* the alternate spellings
    PDict(S_capturedata :> PDict((S_endpoint_input :> Wrap(q)) @@ (S_endpoint_output :> Wrap(p)))),
    \* attribute objects all the way down
    PObj(S_captureData :> PObj((S_endpointInput :> PObj(S_data :> q))
                               @@ (S_endpointOutput :> PObj(S_data :> p)))),
    \* a record whose captureData getter raises
    PObj((S_captureData :> Raises) @@ (S_endpointInput :> q) @@ (S_endpointOutput :> p)),
    \* a request container whose data getter raises
    PDict(S_captureData :> PDict((S_endpointInput :> PObj(S_data :> Raises))
                                 @@ (S_endpointOutput :> Wrap(p)))),
    \* a capture whose endpointInput getter raises
    PDict(S_captureData :> PObj((S_endpointInput :> Raises) @@ (S_endpointOutput :> p))),
    \* a capture whose endpointOutput getter raises
    PDict(S_captureData :> PObj((S_endpointInput :> q) @@ (S_endpointOutput :> Raises))),
    \* a response container holding an empty data beside a prediction
    PDict(S_captureData :> PDict((S_endpointInput :> Wrap(q))
             @@ (S_endpointOutput :> PDict((S_data :> PStr(<<>>))
                                           @@ (S_predictions :> PList(<<PDict(S_score :> p)>>)))))) }

Shapes(q, p) == {Captured(q, p), TopLevel(q, p)} \cup OtherShapes(q, p)

Records ==
  UNION { {Captured(q, p), TopLevel(q, p)} : q \in RequestPayloads, p \in FewResponses }
  \cup UNION { Shapes(q, p) : q \in FewRequests, p \in ResponsePayloads }
  \cup { None, PStr(J_good), PList(<<>>), PDict(EmptyMap), PDict(S_captureData :> None),
         PDict(S_captureData :> PStr(J_good)) }

\* the records of the runs that call more than once
CallRecords ==
  { Captured(PStr(Join(BasePieces, <<",">>)), PStr(J_good)),
    Captured(PStr(Join(BasePieces, <<",">>)), None),
    Captured(None, PStr(J_good)),
    TopLevel(PStr(<<"a",",","b">>), PStr(T_not_json)),
    PObj((S_captureData :> Raises) @@ (S_endpointOutput :> PStr(J_good))),
    None }

\* ---- specifications -------------------------------------------------------------
InitWith(R) ==
  /\ record \in R
  /\ flat_record = DefaultRecord
  /\ capture = Unbound
  /\ endpoint_input = Unbound
  /\ csv_raw = Unbound
  /\ fields = <<>>
  /\ endpoint_output = Unbound
  /\ pred_raw = Unbound
  /\ pred_json = Unbound
  /\ logged = {}
  /\ result = None
  /\ escaped = FALSE
  /\ pc = "capture"
  /\ calls = 1
  /\ seen = EmptyMap

Init == InitWith(Records)

Next ==
  \/ LocateStep
  \/ InputStep
  \/ CsvStep
  \/ OutputStep
  \/ DecodeStep
  \/ ScoreStep
  \/ FinalCast
  \/ Serialize

\* one call per record
Spec == Init /\ [][Next]_vars

InitCalls == InitWith(CallRecords)

NextCalls == Next \/ (\E r \in CallRecords : calls < MaxCalls /\ Invoke(r))

\* up to MaxCalls calls in a row, on any records
SpecCalls == InitCalls /\ [][NextCalls]_vars

\* ---- properties ------------------------------------------------------------------
Returned == pc = "done" /\ ~escaped

\* the 20-character key of index i: nineteen zeros and the digit of i
IndexKey(i) == [k \in 1..20 |-> IF k = 20 THEN Digits[i + 1] ELSE "0"]

SixOf(fr) == <<fr.sqft, fr.bedrooms, fr.bathrooms, fr.location, fr.year_built, fr.condition>>

\* pieces 0..5 converted to float, integer, float, text, integer, text
ConvertedSix(fs) ==
  <<PyFloat(PStr(fs[1])), PyInt(PStr(fs[2])), PyFloat(PStr(fs[3])), PStr(fs[4]),
    PyInt(PStr(fs[5])), PStr(fs[6])>>

ConversionFails(fs) ==
  \/ IsExc(PyFloat(PStr(fs[1]))) \/ IsExc(PyInt(PStr(fs[2])))
  \/ IsExc(PyFloat(PStr(fs[3]))) \/ IsExc(PyInt(PStr(fs[5])))

AfterRequest == pc \in {"output", "decode", "score", "cast", "serialize", "done"}

AfterResponse == pc \in {"cast", "serialize", "done"}

\* 1200, 3, 2.5, Downtown, 1998, Good
ExampleRequest ==
  <<"1","2","0","0",","," ","3",","," ","2",".","5",","," ","D","o","w","n","t","o","w","n",
    ","," ","1","9","9","8",","," ","G","o","o","d">>

\* {"predictions":[{"score": 452000.5}]}
ExampleResponse ==
  <<"{","\"","p","r","e","d","i","c","t","i","o","n","s","\"",":","[","{","\"","s","c","o",
    "r","e","\"",":"," ","4","5","2","0","0","0",".","5","}","]","}">>

\* C1: the mapping a call returns has exactly seven entries, keyed by the
\* 20-character zero-padded decimal strings for 0 through 6.
C1_SevenKeys ==
  Returned =>
    /\ result.kind = "dict"
    /\ DOMAIN result.val = {IndexKey(i) : i \in 0..6}
    /\ Cardinality(DOMAIN result.val) = 7

\* a call on a record whose request failed to convert and whose response
\* lookup raised has returned
C1_Witness ==
  /\ Returned
  /\ {"csv", "output"} \subseteq logged
  /\ Cardinality(DOMAIN result.val) = 7

\* C2: no exception leaves the call: whatever stage fails, the call goes on
\* to its end and returns a mapping.
C2_NoEscape ==
  /\ ~escaped
  /\ pc = "done" => result.kind = "dict"

\* the capture was never bound, both try blocks caught an exception, and the
\* call returned a mapping all the same
C2_Witness ==
  /\ pc = "done"
  /\ capture.kind = "unbound"
  /\ {"input", "output"} \subseteq logged
  /\ result.kind = "dict"

\* C3: index 0 holds the stringified price, 1 sqft, 2 bedrooms, 3 bathrooms,
\* 4 the location, 5 the stringified year_built and 6 the condition.
C3_FieldOrder ==
  Returned =>
    /\ result.val[IndexKey(0)] = PyStr(flat_record.price)
    /\ result.val[IndexKey(1)] = PyStr(flat_record.sqft)
    /\ result.val[IndexKey(2)] = PyStr(flat_record.bedrooms)
    /\ result.val[IndexKey(3)] = PyStr(flat_record.bathrooms)
    /\ result.val[IndexKey(4)] = flat_record.location
    /\ result.val[IndexKey(5)] = PyStr(flat_record.year_built)
    /\ result.val[IndexKey(6)] = flat_record.condition

\* the running example has been flattened to 452000.5, 1200.0, 3, 2.5,
\* Downtown, 1998, Good
C3_Witness ==
  /\ Returned
  /\ csv_raw = PStr(ExampleRequest)
  /\ pred_raw = PStr(ExampleResponse)
  /\ result.val[IndexKey(0)] = PStr(<<"4","5","2","0","0","0",".","5">>)
  /\ result.val[IndexKey(1)] = PStr(<<"1","2","0","0",".","0">>)
  /\ result.val[IndexKey(2)] = PStr(<<"3">>)
  /\ result.val[IndexKey(3)] = PStr(<<"2",".","5">>)
  /\ result.val[IndexKey(4)] = PStr(<<"D","o","w","n","t","o","w","n">>)
  /\ result.val[IndexKey(5)] = PStr(<<"1","9","9","8">>)
  /\ result.val[IndexKey(6)] = PStr(<<"G","o","o","d">>)

\* C4: the request-derived update is all-or-nothing: once the request stage
\* is over the six fields are all at their defaults or all taken from the
\* payload, and they are at their defaults when a conversion failed.
C4_AllOrNothing ==
  AfterRequest =>
    /\ \/ SixOf(flat_record) = SixOf(DefaultRecord)
       \/ Len(fields) >= 6 /\ SixOf(flat_record) = ConvertedSix(fields)
    /\ (Len(fields) >= 6 /\ ConversionFails(fields))
         => SixOf(flat_record) = SixOf(DefaultRecord)

\* six pieces of which the first converts and the fifth does not
C4_Witness ==
  /\ pc = "done"
  /\ Len(fields) >= 6
  /\ ~IsExc(PyFloat(PStr(fields[1])))
  /\ IsExc(PyInt(PStr(fields[5])))
  /\ "csv" \in logged
  /\ SixOf(flat_record) = SixOf(DefaultRecord)

WhiteSpace ==
  {"\t", "\n", "u000b", "\f", "\r", "u001c", "u001d", "u001e", "u001f", " ", "u0085",
   "u00a0", "u1680", "u2000", "u2001", "u2002", "u2003", "u2004", "u2005", "u2006",
   "u2007", "u2008", "u2009", "u200a", "u2028", "u2029", "u202f", "u205f", "u3000"}

\* the positions around the pieces of t: before it, its commas, after it
PieceCuts(t) == {0, Len(t) + 1} \cup {i \in 1..Len(t) : t[i] = ","}

PieceEnd(t, a) ==
  CHOOSE b \in PieceCuts(t) : b > a /\ \A c \in PieceCuts(t) : c > a => b <= c

\* the positions of the piece after cut a that hold no white space
Inked(t, a) == {i \in (a + 1)..(PieceEnd(t, a) - 1) : t[i] \notin WhiteSpace}

PieceStarts(t) == {a \in PieceCuts(t) \ {Len(t) + 1} : Inked(t, a) # {}}

Least(S) == CHOOSE x \in S : \A y \in S : x <= y

Greatest(S) == CHOOSE x \in S : \A y \in S : y <= x

\* the piece start with k - 1 piece starts before it
NthStart(t, starts, k) ==
  CHOOSE a \in starts : Cardinality({b \in starts : b < a}) = k - 1

Trimmed(t, ink) == SubSeq(t, Least(ink), Greatest(ink))

\* the non-empty trimmed pieces of t, in order
PiecesFrom(t, starts) ==
  [k \in 1..Cardinality(starts) |-> Trimmed(t, Inked(t, NthStart(t, starts, k)))]

TrimmedPieces(t) == PiecesFrom(t, PieceStarts(t))

\* C5: the pieces of a textual request payload are its comma-separated
\* parts, trimmed, the empty ones dropped; with fewer than 6 of them the six
\* fields keep their defaults, with 6 or more that all convert the fields
\* are pieces 0..5 converted, the later pieces being ignored.
C5_Pieces ==
  (AfterRequest /\ csv_raw.kind = "str") =>
    /\ pc = "output" => fields = TrimmedPieces(csv_raw.val)
    /\ Len(fields) < 6 => SixOf(flat_record) = SixOf(DefaultRecord)
    /\ (Len(fields) >= 6 /\ ~ConversionFails(fields))
         => SixOf(flat_record) = ConvertedSix(fields)
    /\ csv_raw.val = ExampleRequest
         => SixOf(flat_record) =
              <<V("float", Fin(FALSE, 12, 2)), PInt(3), V("float", Fin(FALSE, 25, -1)),
                PStr(<<"D","o","w","n","t","o","w","n">>), PInt(1998),
                PStr(<<"G","o","o","d">>)>>

\* seven comma-separated parts of which one is empty: six pieces remain and
\* the sixth field comes from the seventh part
C5_Witness ==
  /\ pc = "done"
  /\ csv_raw.kind = "str"
  /\ Cardinality(PieceCuts(csv_raw.val)) = 8
  /\ Len(fields) = 6
  /\ flat_record.sqft = V("float", Fin(FALSE, 12, 2))
  /\ flat_record.condition = PStr(<<"e","x","t","r","a">>)

\* the decoded payload is a mapping whose predictions is a non-empty
\* sequence whose element 0 is a mapping with a score, not None, that
\* float() accepts
HasValidScore(js) ==
  /\ js.kind = "dict"
  /\ S_predictions \in DOMAIN js.val
  /\ js.val[S_predictions].kind = "list"
  /\ Len(js.val[S_predictions].val) > 0
  /\ js.val[S_predictions].val[1].kind = "dict"
  /\ S_score \in DOMAIN js.val[S_predictions].val[1].val
  /\ js.val[S_predictions].val[1].val[S_score].kind # "none"
  /\ ~IsExc(PyFloat(js.val[S_predictions].val[1].val[S_score]))

\* C6: price is float(score) exactly when the response payload the handler
\* extracted decodes to, or already is, a mapping with a valid
\* predictions[0].score; in every other case price stays 0.0.
C6_Price ==
  AfterResponse =>
    /\ pred_raw.kind \in {"dict", "list"} => pred_json = pred_raw
    /\ IF HasValidScore(pred_json)
       THEN flat_record.price = PyFloat(pred_json.val[S_predictions].val[1].val[S_score])
       ELSE flat_record.price = DefaultRecord.price
    /\ pred_raw = PStr(ExampleResponse)
         => flat_record.price = V("float", Fin(FALSE, 4520005, -1))
    /\ pred_raw = PStr(<<"n","o","t"," ","j","s","o","n">>)
         => flat_record.price = DefaultRecord.price /\ "output" \notin logged

\* the example response arrived as text and gave the price 452000.5
C6_Witness ==
  /\ pc = "done"
  /\ pred_raw = PStr(ExampleResponse)
  /\ pred_json.kind = "dict"
  /\ flat_record.price = V("float", Fin(FALSE, 4520005, -1))

\* C7: a call on a record already flattened returns the same mapping again;
\* a call starts from fresh locals, and leaves its record as it was.
C7_Deterministic ==
  [][ /\ (pc' = "done" /\ ~escaped' /\ record \in DOMAIN seen) => result' = seen[record]
      /\ (pc = "done" /\ pc' # "done")
           => flat_record' = DefaultRecord /\ capture' = Unbound /\ fields' = <<>>
      /\ pc # "done" => record' = record ]_vars

\* a second call on the record of the first has returned, with a price
C7_Witness ==
  /\ Returned
  /\ calls = 2
  /\ Cardinality(DOMAIN seen) = 1
  /\ result = seen[record]
  /\ flat_record.price # DefaultRecord.price

\* a lookup that swallows a failing read, as section 4.1 words it
Contained(v) == IF IsExc(v) THEN None ELSE v

FoundCapture(rec) ==
  OrElse(Contained(get_prop(rec, S_captureData)),
         OrElse(Contained(get_prop(rec, S_capturedata)), rec))

FoundOutput(rec) ==
  OrElse(Contained(get_prop(FoundCapture(rec), S_endpointOutput)),
         Contained(get_prop(FoundCapture(rec), S_endpoint_output)))

\* the price the response of rec gives when the response stage stands alone
ResponsePrice(rec) ==
  PredictionPrice(DecodePrediction(Contained(extract_data(FoundOutput(rec)))))

\* C8: the two stages are contained independently: a record whose response
\* carries a valid score gets that price whether or not the request stage
\* failed, and the response stage leaves the six request fields alone.
C8_StagesIndependent ==
  [][ /\ pc \in {"output", "decode", "score"} => SixOf(flat_record') = SixOf(flat_record)
      /\ (pc' = "done" /\ ResponsePrice(record).kind = "float")
           => flat_record'.price = ResponsePrice(record) ]_vars

HasData(c) == c.kind \in {"dict", "obj"} /\ S_data \in DOMAIN c.val /\ c.val[S_data].kind # "none"

\* C9: a container with a data field yields that field's value (decoded when
\* it is bytes), whatever the value, never the container.
C9_DataField ==
  /\ (HasData(endpoint_input) /\ csv_raw.kind # "unbound")
       => csv_raw = DecodeBytes(endpoint_input.val[S_data])
  /\ (HasData(endpoint_output) /\ pred_raw.kind # "unbound")
       => pred_raw = DecodeBytes(endpoint_output.val[S_data])

HasCapture(rec) ==
  /\ rec.kind \in {"dict", "obj"}
  /\ S_captureData \in DOMAIN rec.val
  /\ rec.val[S_captureData].kind \notin {"none", "raises"}

\* C10: the capture is the value under captureData whenever the record has
\* that field, even an empty one; the record stands in only without it.
C10_Capture ==
  (pc # "capture" /\ capture.kind # "unbound" /\ HasCapture(record))
    => capture = record.val[S_captureData]

====
